---- MODULE Spec2Model ----
(***************************************************************************)
(* Model of hybrid_rag_framework.py: the /query request of the             *)
(* multi-backend orchestration engine.  One request fans out to every      *)
(* configured backend (query_all_models / query_single_model), ranks the   *)
(* candidates (get_combined_score), selects the best one (query) and runs  *)
(* the iterative refinement loop on it (refine_response_iteratively).      *)
(*                                                                         *)
(* Texts are abstract: a text records which backend call produced it and   *)
(* how often clean_code_artifacts has been applied to it.  Scores are      *)
(* integers: quality in hundredths, the combined score times 15000.        *)
(***************************************************************************)
EXTENDS Integers, Sequences, FiniteSets, TLC

\* ---------------------------------------------------------------- bounds
MaxBackends == 2   \* configured backends per deployment (the loader allows 5)
MaxBudget   == 2   \* largest explicitly configured refinement budget
MaxIssues   == 3   \* largest issue count the validator reports

\* ------------------------------------------------------- program constants
DefaultBudget   == 3      \* int(os.getenv('MAX_REFINEMENT_ITERATIONS', '3'))
PoolSize        == 3      \* ThreadPoolExecutor(max_workers=3)
IssuePenalty    == 8      \* 0.08 per issue, in hundredths
PassThreshold   == 50     \* quality_score >= 0.5, in hundredths
NeutralQuality  == 50     \* 'quality_score': 0.5 of the unsupported-language report
TimeCeiling     == 30     \* duration / 30
LengthCeiling   == 3000   \* response_length / 3000
QualityWeight   == 105    \* 0.70, on the scale 15000 with quality in hundredths
TimeWeight      == 50     \* 0.10, on the scale 15000 with 30 time steps
ErrorsCap       == 10     \* errors_context[:10]

None == "None"
Unset == 0 - 1     \* an absent budget: the argument None, the variable not in the environment

Max(a, b) == IF a >= b THEN a ELSE b
Min(a, b) == IF a <= b THEN a ELSE b

\* ------------------------------------------------------------ input domains
\* Backends the environment may configure (MODEL_i_NAME, MODEL_i_TYPE,
\* MODEL_i_DEPLOYMENT); two of them share a name.
ConfigPool ==
    { [name |-> "a", type |-> "openai_compatible", deployment |-> "d1"],
      [name |-> "a", type |-> "azure_openai", deployment |-> "d2"],
      [name |-> "b", type |-> "unsupported", deployment |-> "d3"] }

RECURSIVE SeqsUpTo(_, _)
SeqsUpTo(S, n) ==
    IF n = 0 THEN { <<>> }
    ELSE LET shorter == SeqsUpTo(S, n - 1)
         IN  shorter \cup { Append(s, x) : s \in { t \in shorter : Len(t) = n - 1 }, x \in S }

\* (duration in seconds, response length in characters) of a generation
Metrics == { [duration |-> 3, len |-> 3000], [duration |-> 40, len |-> 600] }

\* (duration, length of the text f"Error: {e}") of a worker that raised
FaultMetrics == { [duration |-> 1, len |-> 20], [duration |-> 40, len |-> 60] }

\* What one validate_code call meets:
\*   language - the language argument ('auto' from every caller of the program)
\*   empty    - the text is empty or whitespace only
\*   lang     - whether the text contains 'package ' and 'func ' (auto detection)
\*   tool     - "no_tmpdir": tempfile.mkdtemp raised (line 380, before the try);
\*              "raise": writing the file or subprocess.run raised or timed out;
\*              "fail": no stdout and a nonzero exit code;
\*              "clean": no stdout with exit 0, or '{}' / 'null' / no Issues;
\*              "garbage": stdout that is not JSON;
\*              "issues": a JSON issue list whose sub-lines count to n
\*   lines    - the sub-lines of the issue list that are put on the errors list
\*              (with one countable sub-line per issue that is n)
Outcome(language, empty, lang, tool, n) ==
    [language |-> language, empty |-> empty, lang |-> lang, tool |-> tool, n |-> n,
     lines |-> n]

ValidatorOutcomes ==
    { Outcome("auto", FALSE, "other", "clean", 0) }
    \cup { Outcome("auto", FALSE, "go", t, 0) : t \in {"raise", "clean", "garbage"} }
    \cup { Outcome("auto", FALSE, "go", "fail", 1) }
    \cup { Outcome("auto", FALSE, "go", "issues", k) : k \in 1..MaxIssues }

\* ------------------------------------------------------------------- texts
Text(by, iter, cleans) == [by |-> by, iter |-> iter, cleans |-> cleans, unescaped |-> FALSE]
ErrorText(by) == [by |-> by, iter |-> -1, cleans |-> 0, unescaped |-> FALSE]

\* clean_code_artifacts: one more cleaning pass over the text
clean_code_artifacts(t) == [t EXCEPT !.cleans = Min(@ + 1, 3)]

\* response.replace('\\n', '\n').replace('\\t', '\t')
Unescape(t) == [t EXCEPT !.unescaped = TRUE]

\* ----------------------------------------------------------------- reports
\* The dictionary validate_code returns; errors is the length of its 'errors'
\* list.  EmptyDict is the {} that .get('static_validation', {}) yields when the
\* metadata has no report: every .get on it returns its default.
Report(q, he, ne, te, vp) ==
    [present |-> TRUE, quality_score |-> q, has_errors |-> he, errors |-> ne,
     total_errors |-> te, validation_passed |-> vp, raised |-> FALSE]

EmptyDict ==
    [present |-> FALSE, quality_score |-> 0, has_errors |-> FALSE, errors |-> 0,
     total_errors |-> 0, validation_passed |-> FALSE, raised |-> FALSE]

\* No dictionary at all: the call left validate_code with an exception
Raised == [EmptyDict EXCEPT !.raised = TRUE]

\* Variant: the score is not clamped at zero
QualityScore_NoClamp(n) == 100 - n * IssuePenalty

\* quality_score = max(0.0, 1.0 - (golangci_lint_errors * 0.08)), in hundredths
QualityScore(n) == Max(0, 100 - n * IssuePenalty)

\* validate_and_fix_go_code, by what the text is and what the tool did.  The
\* empty text returns early (lines 372-377); an exception inside the try block
\* leaves the initial scores with one 'Validation error' entry (lines 493-497).
validate_and_fix_go_code(o) ==
    CASE o.empty              -> Report(0, TRUE, 1, 0, FALSE)
      [] o.tool = "no_tmpdir" -> Raised
      [] o.tool = "raise"     -> Report(0, TRUE, 1, 0, FALSE)
      [] o.tool = "fail"      -> Report(QualityScore(1), TRUE, 1, 1, QualityScore(1) >= PassThreshold)
      [] o.tool = "issues"    -> Report(QualityScore(o.n), o.n > 0, o.lines, o.n,
                                        QualityScore(o.n) >= PassThreshold)
      [] OTHER                -> Report(QualityScore(0), FALSE, 0, 0, QualityScore(0) >= PassThreshold)

\* validate_code(code, language, model_name): 'auto' becomes 'go' when the text
\* contains 'package ' and 'func '; any language but 'go' gets the neutral report
validate_code(o) ==
    LET language == IF o.language = "auto" /\ o.lang = "go" THEN "go" ELSE o.language
    IN  IF language = "go" THEN validate_and_fix_go_code(o)
        ELSE Report(NeutralQuality, FALSE, 0, 0, TRUE)

\* The metadata of a session that was not needed (lines 602-607); also the
\* placeholder of a result that has no 'refinement_metadata' key.
NoRefinement ==
    [refinement_needed |-> FALSE, initial_errors |-> 0, iterations_performed |-> 0,
     iteration_details |-> <<>>, final_errors |-> 0, refinement_successful |-> FALSE]

\* ---------------------------------------------------------------- dispatch
\* What one worker meets: fault - an exception escapes the try block of
\* query_single_model (backend unreachable, timeout, malformed response);
\* otherwise the generation's metrics and the validator's behaviour.
WorkerOutcomes ==
    { [fault |-> TRUE, m |-> m, v |-> Outcome("auto", FALSE, "other", "clean", 0)] :
        m \in FaultMetrics }
    \cup { [fault |-> FALSE, m |-> m, v |-> v] : m \in Metrics, v \in ValidatorOutcomes }

\* The fallback tuple of the except branch (lines 1535-1543)
FallbackResult(key, config, o) ==
    [raised |-> FALSE, key |-> key, model |-> config.name, response |-> ErrorText(key),
     len |-> o.m.len, duration |-> o.m.duration, static_validation |-> EmptyDict,
     error |-> TRUE]

\* Variant: the except branch is missing, the exception leaves the worker
query_single_model_Propagates(key, config, o) ==
    IF o.fault \/ config.type \notin {"azure_openai", "openai_compatible"}
    THEN [FallbackResult(key, config, o) EXCEPT !.raised = TRUE]
    ELSE [raised |-> FALSE, key |-> key, model |-> config.name,
          response |-> clean_code_artifacts(Text(key, 0, 0)),
          len |-> o.m.len, duration |-> o.m.duration,
          static_validation |-> validate_code(o.v), error |-> FALSE]

\* query_single_model: the 4-tuple it returns (key is kept to tell which worker
\* produced it; the program's tuple carries the name only).  A config whose type
\* is neither azure_openai nor openai_compatible leaves response_text unbound,
\* which raises inside the try block.
query_single_model(key, config, o) ==
    IF o.fault \/ config.type \notin {"azure_openai", "openai_compatible"}
    THEN FallbackResult(key, config, o)
    ELSE [raised |-> FALSE, key |-> key, model |-> config.name,
          response |-> clean_code_artifacts(Text(key, 0, 0)),
          len |-> o.m.len, duration |-> o.m.duration,
          static_validation |-> validate_code(o.v), error |-> FALSE]

\* The dictionary query_all_models appends for one future (lines 1574-1583)
ResultDict(r) ==
    [key |-> r.key, model |-> r.model, response |-> Unescape(r.response),
     duration |-> r.duration, response_length |-> r.len,
     static_validation |-> r.static_validation, error |-> r.error,
     refined |-> FALSE, refinement_metadata |-> NoRefinement]

\* Variant: the completeness term is not capped at 1.0
get_combined_score_Uncapped(r) ==
    LET quality_score == r.static_validation.quality_score
        time_score    == Max(0, TimeCeiling - r.duration)
    IN  QualityWeight * quality_score + TimeWeight * time_score + r.response_length

\* get_combined_score, times 15000
get_combined_score(r) ==
    LET quality_score == r.static_validation.quality_score
        time_score    == Max(0, TimeCeiling - r.duration)
        completeness  == Min(r.response_length, LengthCeiling)
    IN  QualityWeight * quality_score + TimeWeight * time_score + completeness

\* Variant: a descending sort that puts a later element before its equals
RECURSIVE InsertDesc_Unstable(_, _)
InsertDesc_Unstable(sorted, r) ==
    IF sorted = <<>> THEN << r >>
    ELSE IF get_combined_score(Head(sorted)) > get_combined_score(r)
         THEN << Head(sorted) >> \o InsertDesc_Unstable(Tail(sorted), r)
         ELSE << r >> \o sorted

\* list.sort(key=get_combined_score, reverse=True): stable, descending
RECURSIVE InsertDesc(_, _)
InsertDesc(sorted, r) ==
    IF sorted = <<>> THEN << r >>
    ELSE IF get_combined_score(Head(sorted)) >= get_combined_score(r)
         THEN << Head(sorted) >> \o InsertDesc(Tail(sorted), r)
         ELSE << r >> \o sorted

RECURSIVE SortDesc(_)
SortDesc(rs) ==
    IF rs = <<>> THEN <<>>
    ELSE InsertDesc(SortDesc(SubSeq(rs, 1, Len(rs) - 1)), rs[Len(rs)])

\* ------------------------------------------------------------------- state
VARIABLES
    index_built,                \* builder.index is set (/build was called)
    model_configs,              \* builder.model_configs, in key order model_1, model_2, ...
    budget_arg,                 \* the max_refinement_iterations argument of __init__ (or None)
    budget_env,                 \* MAX_REFINEMENT_ITERATIONS of the environment (or None)
    max_refinement_iterations,  \* refinement_handler.max_refinement_iterations
    pc,                         \* where the request handler is
    task,                       \* per backend: "idle", "queued", "running", "done"
    future,                     \* per backend: what its future holds once done
    results,                    \* the list query_all_models builds and ranks
    best,                       \* results[0] as query holds it
    model_key,                  \* best_model_key of query (0: none)
    iteration,                  \* loop variable of refine_response_iteratively
    current_response,
    current_validation,
    refinement_metadata,
    exit_reason,                \* how the refinement loop was left
    repair_calls,               \* log of _request_refinement_from_model calls
    validate_calls,             \* number of validate_code calls made by the refinement
    http,                       \* what /query returned
    unit_pc,                    \* a single function under test: "off", "ready", "done"
    unit_in,                    \* the argument the function is called with
    unit_out                    \* what the call returned

vars == << index_built, model_configs, budget_arg, budget_env, max_refinement_iterations,
           pc, task, future, results, best, model_key, iteration, current_response,
           current_validation, refinement_metadata, exit_reason, repair_calls,
           validate_calls, http, unit_pc, unit_in, unit_out >>

config_vars == << index_built, model_configs, budget_arg, budget_env, max_refinement_iterations >>
unit_vars == << unit_pc, unit_in, unit_out >>
refine_vars == << model_key, iteration, current_response, current_validation,
                  refinement_metadata, exit_reason, repair_calls, validate_calls >>

N == Len(model_configs)
Keys == 1..N

NoFuture == [raised |-> FALSE, key |-> 0, model |-> None, response |-> ErrorText(0),
             len |-> 0, duration |-> 0, static_validation |-> EmptyDict, error |-> FALSE]
NoResult == ResultDict(NoFuture)
NoText == ErrorText(0)
NoResponse == [status |-> 0, body |-> NoText]

\* ErrorsRefinementAndSelfCorrection.__init__:
\*   max_refinement_iterations or int(os.getenv('MAX_REFINEMENT_ITERATIONS', '3'))
InitBudget(arg, env) ==
    IF arg # Unset /\ arg # 0 THEN arg
    ELSE IF env # Unset THEN env ELSE DefaultBudget

\* The budget the deployment asked for: the explicit argument when one is given,
\* otherwise the environment's value, otherwise the documented default.
ConfiguredBudget ==
    IF budget_arg # Unset THEN budget_arg
    ELSE IF budget_env # Unset THEN budget_env ELSE DefaultBudget

BudgetChoices ==
    { << a, Unset >> : a \in {Unset} \cup 0..MaxBudget } \cup { << Unset, 0 >> }

Init ==
    /\ index_built \in BOOLEAN
    /\ model_configs \in SeqsUpTo(ConfigPool, MaxBackends)
    /\ \E c \in BudgetChoices :
          /\ budget_arg = c[1]
          /\ budget_env = c[2]
          /\ max_refinement_iterations = InitBudget(c[1], c[2])
    /\ pc = "idle"
    /\ task = [k \in 1..Len(model_configs) |-> "idle"]
    /\ future = [k \in 1..Len(model_configs) |-> NoFuture]
    /\ results = <<>>
    /\ best = NoResult
    /\ model_key = 0
    /\ iteration = 0
    /\ current_response = NoText
    /\ current_validation = EmptyDict
    /\ refinement_metadata = NoRefinement
    /\ exit_reason = "none"
    /\ repair_calls = <<>>
    /\ validate_calls = 0
    /\ http = NoResponse
    /\ unit_pc = "off"
    /\ unit_in = <<>>
    /\ unit_out = <<>>

\* ------------------------------------------------------------ /query, part 1
\* query, lines 1713-1720, and the submit loop of query_all_models (1565-1569).
\* With no backend configured the pool has nothing to run: the empty list is
\* ranked and returned, and query answers 500.
QueryStart ==
    /\ pc = "idle"
    /\ IF ~index_built
       THEN /\ http' = [status |-> 400, body |-> NoText]
            /\ pc' = "done"
            /\ task' = task
       ELSE IF N = 0
       THEN /\ http' = [status |-> 500, body |-> NoText]
            /\ pc' = "done"
            /\ task' = task
       ELSE /\ task' = [k \in Keys |-> "queued"]
            /\ pc' = "collect"
            /\ http' = http
    /\ UNCHANGED << unit_vars, config_vars, refine_vars, future, results, best >>

\* Variant: the pool does not see its busy threads
Running_Unseen == {}

\* The work items a pool thread is executing
Running == { k \in Keys : task[k] = "running" }

\* A pool thread takes the oldest queued work item (ThreadPoolExecutor, FIFO)
WorkerStart(k) ==
    /\ task[k] = "queued"
    /\ Cardinality(Running) < PoolSize
    /\ \A j \in Keys : j < k => task[j] # "queued"
    /\ task' = [task EXCEPT ![k] = "running"]
    /\ UNCHANGED << unit_vars, config_vars, refine_vars, pc, future, results, best, http >>

\* query_single_model runs to its return in the worker thread
WorkerFinish(k) ==
    /\ task[k] = "running"
    /\ \E o \in WorkerOutcomes :
          future' = [future EXCEPT ![k] = query_single_model(k, model_configs[k], o)]
    /\ task' = [task EXCEPT ![k] = "done"]
    /\ UNCHANGED << unit_vars, config_vars, refine_vars, pc, results, best, http >>

\* Variant: the futures are taken as they complete (the latest finished worker
\* that has not been collected yet) instead of in submission order
NextFuture_AsCompleted ==
    LET ready == { k \in Keys : task[k] = "done" /\ future[k].key = k }
    IN  IF ready = {} THEN CHOOSE k \in Keys : task[k] # "done"
        ELSE CHOOSE k \in ready : \A j \in ready : j <= k

\* The future whose result() the collecting loop waits for next (line 1571)
NextFuture == Len(results) + 1

\* for future in futures: future.result() ... results.append(...), in
\* submission order; after the last one the list is sorted and returned.  An
\* exception stored in a future is re-raised by result() and ends the request.
Collect ==
    /\ pc = "collect"
    /\ Len(results) < N
    /\ LET k == NextFuture
           appended == Append(results, ResultDict(future[k]))
           last == Len(appended) = N
       IN  /\ task[k] = "done"
           /\ future' = [future EXCEPT ![k] = NoFuture]
           /\ IF future[k].raised
              THEN /\ http' = [status |-> 500, body |-> NoText]
                   /\ pc' = "done"
                   /\ results' = results
              ELSE /\ http' = http
                   /\ results' = IF last THEN SortDesc(appended) ELSE appended
                   /\ pc' = IF last THEN "select" ELSE "collect"
    /\ UNCHANGED << unit_vars, config_vars, refine_vars, task, best >>

\* ------------------------------------------------------------ /query, part 2
\* query, lines 1753-1757: the first configuration whose name is the result's
FindModelKey(name) ==
    IF \E k \in Keys : model_configs[k].name = name
    THEN CHOOSE k \in Keys :
            /\ model_configs[k].name = name
            /\ \A j \in Keys : model_configs[j].name = name => k <= j
    ELSE 0

\* Variant: every candidate that has a report is refined
NeedsRefinement_AnyReport(static_val) == static_val.present

\* query, lines 1732-1737 (if static_val: ... if static_val.get('has_errors')),
\* and the same test at the head of refine_response_iteratively (line 604)
NeedsRefinement(static_val) == static_val.present /\ static_val.has_errors

\* query, lines 1722-1766, and refine_response_iteratively up to the loop
\* (595-632).  Without a report that has errors the best text is returned as
\* it is.  query reads nothing of the ranked list but results[0] from here on:
\* the model keeps that element as best and lets go of the list.
SelectBest ==
    /\ pc = "select"
    /\ LET top == results[1]
           static_val == top.static_validation
           key == FindModelKey(top.model)
       IN  /\ best' = top
           /\ results' = <<>>
           /\ IF NeedsRefinement(static_val) /\ key # 0
              THEN /\ model_key' = key
                   /\ current_response' = top.response
                   /\ refinement_metadata' =
                         [refinement_needed |-> TRUE,
                          initial_errors |-> static_val.total_errors,
                          iterations_performed |-> 0,
                          iteration_details |-> <<>>,
                          final_errors |-> static_val.total_errors,
                          refinement_successful |-> FALSE]
                   /\ IF max_refinement_iterations >= 1
                      THEN /\ iteration' = 1
                           /\ pc' = "refine"
                           /\ exit_reason' = exit_reason
                      ELSE /\ iteration' = iteration
                           /\ pc' = "summary"
                           /\ exit_reason' = "exhausted"
                   /\ http' = http
              ELSE /\ http' = [status |-> 200, body |-> top.response]
                   /\ pc' = "done"
                   /\ UNCHANGED << model_key, current_response, refinement_metadata,
                                   iteration, exit_reason >>
    /\ UNCHANGED << unit_vars, config_vars, task, future, current_validation,
                    repair_calls, validate_calls >>

\* ------------------------------------------------------------- refinement
\* What the backend does with a repair request
RepairOutcomes == { "text", "empty", "raise" }

\* _request_refinement_from_model: the stripped text of the backend's answer,
\* or None (NoText) for an unsupported type, an empty answer or an exception
request_refinement_from_model(config, key, iter, g) ==
    IF config.type \in {"azure_openai", "openai_compatible"} /\ g = "text"
    THEN Text(key, iter, 0)
    ELSE NoText

\* Variant: the failed repair call goes unnoticed
GenFailed_Never(refined_response) == FALSE

\* line 650: if not refined_response
GenFailed(refined_response) == refined_response = NoText

\* Variant: one remaining issue is taken for success
IsConverged_Loose(current_error_count) == current_error_count <= 1

\* Variant: the success test never fires
IsConverged_Never(current_error_count) == current_error_count < 0

\* line 694: if current_error_count == 0
IsConverged(current_error_count) == current_error_count = 0

\* Variant: the stagnation test also applies to the first iteration
NoProgress_FromFirst(iter, improvement) == improvement <= 0

\* Variant: the stagnation test needs a strict regression
NoProgress_Strict(iter, improvement) == iter > 1 /\ improvement < 0

\* line 700: if iteration > 1 and iteration_data['improvement'] <= 0
NoProgress(iter, improvement) == iter > 1 /\ improvement <= 0

\* Variant: the refined text is not carried over
NextResponse_Keep(current, refined) == current

\* line 691: current_response = refined_response
NextResponse(current, refined) == refined

\* Variant: every repair request repeats the issues of the selected candidate
errors_context_Initial(iter, initial_validation, validation) == initial_validation.errors

\* lines 645: initial_validation.get('errors', []) if iteration == 1
\*            else current_validation.get('errors', [])
errors_context(iter, initial_validation, validation) ==
    IF iter = 1 THEN initial_validation.errors ELSE validation.errors

\* Variant: every entry measures against the selected candidate's issue count
iteration_data_FromInitial(iter, metadata, validation) ==
    [iteration |-> iter,
     errors_before |-> metadata.initial_errors,
     errors_after |-> validation.total_errors,
     validation_result |-> validation,
     improvement |-> metadata.initial_errors - validation.total_errors]

\* lines 667-673: the history entry of one iteration
iteration_data(iter, metadata, validation) ==
    [iteration |-> iter,
     errors_before |-> metadata.final_errors,
     errors_after |-> validation.total_errors,
     validation_result |-> validation,
     improvement |-> metadata.final_errors - validation.total_errors]

\* Variant: the loop ends one iteration early
LoopContinues_OneLess(iter) == iter + 1 < max_refinement_iterations

\* range(1, self.max_refinement_iterations + 1) has a next value after iter
LoopContinues(iter) == iter < max_refinement_iterations

\* One pass of the loop body, lines 632-702: the repair call, and when it
\* returned a text, the cleaning, the validation, the bookkeeping and the two
\* break tests.
RefineIteration ==
    /\ pc = "refine"
    /\ LET config == model_configs[model_key]
           code_to_refine == IF iteration > 1 THEN clean_code_artifacts(current_response)
                             ELSE current_response
           errors == errors_context(iteration, best.static_validation, current_validation)
       IN  \E g \in RepairOutcomes :
                LET answer == request_refinement_from_model(config, model_key, iteration, g)
                    call == [key |-> model_key, iteration |-> iteration,
                             code |-> code_to_refine,
                             errors |-> Min(errors, ErrorsCap),
                             answer |-> answer]
                IN  /\ repair_calls' = Append(repair_calls, call)
                    /\ IF GenFailed(answer)
                       THEN /\ exit_reason' = "gen_failed"
                            /\ pc' = "summary"
                            /\ UNCHANGED << iteration, current_response, current_validation,
                                            refinement_metadata, validate_calls >>
                       ELSE \E v \in ValidatorOutcomes :
                              LET refined_response == clean_code_artifacts(answer)
                                  validation == validate_code(v)
                                  current_error_count == validation.total_errors
                                  data == iteration_data(iteration, refinement_metadata,
                                                         validation)
                                  converged == IsConverged(current_error_count)
                                  stalled == NoProgress(iteration, data.improvement)
                              IN  /\ validate_calls' = validate_calls + 1
                                  /\ current_validation' = validation
                                  /\ refinement_metadata' =
                                        [refinement_metadata EXCEPT
                                           !.iteration_details = Append(@, data),
                                           !.iterations_performed = iteration,
                                           !.final_errors = current_error_count,
                                           !.refinement_successful = IF converged THEN TRUE ELSE @]
                                  /\ current_response' = NextResponse(current_response, refined_response)
                                  /\ IF converged
                                     THEN /\ exit_reason' = "converged"
                                          /\ pc' = "summary"
                                          /\ iteration' = iteration
                                     ELSE IF stalled
                                     THEN /\ exit_reason' = "no_improvement"
                                          /\ pc' = "summary"
                                          /\ iteration' = iteration
                                     ELSE IF LoopContinues(iteration)
                                     THEN /\ exit_reason' = exit_reason
                                          /\ pc' = "refine"
                                          /\ iteration' = iteration + 1
                                     ELSE /\ exit_reason' = "exhausted"
                                          /\ pc' = "summary"
                                          /\ iteration' = iteration
    /\ UNCHANGED << unit_vars, config_vars, task, future, results, best, model_key, http >>

\* The summary of refine_response_iteratively (704-720), its return, and the
\* rest of query (1768-1786): the refined text and the metadata are stored in
\* the best result and the text is sent.
RefineReturn ==
    /\ pc = "summary"
    /\ LET updated == IF refinement_metadata.refinement_needed
                      THEN [best EXCEPT !.response = current_response,
                                        !.refined = TRUE,
                                        !.refinement_metadata = refinement_metadata]
                      ELSE best
       IN  /\ best' = updated
           /\ http' = [status |-> 200, body |-> updated.response]
    /\ pc' = "done"
    /\ UNCHANGED << unit_vars, config_vars, refine_vars, task, future, results >>

Next ==
    \/ QueryStart
    \/ \E k \in Keys : WorkerStart(k)
    \/ \E k \in Keys : WorkerFinish(k)
    \/ Collect
    \/ SelectBest
    \/ RefineIteration
    \/ RefineReturn

Spec == Init /\ [][Next]_vars

\* ------------------------------------------------------------------ claims
history == refinement_metadata.iteration_details
performed == refinement_metadata.iterations_performed
LoopLeft == pc \in {"summary", "done"}

\* The text the selected candidate had when it was ranked
OriginalText == Unescape(clean_code_artifacts(Text(best.key, 0, 0)))

\* The cleaned artifact of refinement iteration i
IterationText(i) == clean_code_artifacts(Text(model_key, i, 0))

\* C1: the refinement never performs more iterations than the configured budget:
\* neither the repair calls, nor the history entries, nor iterations_performed
\* exceed it.  (Fails: an explicit budget of 0 is replaced by the default.)
C1_WithinConfiguredBudget ==
    /\ Len(repair_calls) <= ConfiguredBudget
    /\ Len(history) <= ConfiguredBudget
    /\ performed <= ConfiguredBudget

\* C2: refinement_successful is true only if the report of the most recent
\* iteration counts exactly 0 issues; every other way out of the loop leaves it
\* false.
C2_ConvergedOnlyAtZero ==
    /\ refinement_metadata.refinement_successful =>
          /\ Len(history) >= 1
          /\ history[Len(history)].errors_after = 0
          /\ current_validation.total_errors = 0
          /\ refinement_metadata.final_errors = 0
          /\ exit_reason = "converged"
    /\ (LoopLeft /\ exit_reason # "converged") => ~refinement_metadata.refinement_successful

C2_Witness ==
    /\ pc = "done"
    /\ refinement_metadata.refinement_successful
    /\ Len(history) = 2
    /\ history[1].errors_after > 0

\* C3: the loop is left by stagnation only at an iteration i > 1 whose
\* improvement is <= 0; after an iteration 1 with improvement <= 0 and issues
\* left the loop goes on to iteration 2 when the budget allows.
C3_StagnationOnlyAfterFirst ==
    /\ exit_reason = "no_improvement" =>
          /\ iteration > 1
          /\ Len(history) = iteration
          /\ history[iteration].improvement <= 0
    /\ ( /\ Len(history) = 1
         /\ history[1].improvement <= 0
         /\ history[1].errors_after > 0
         /\ max_refinement_iterations >= 2 ) =>
          \/ pc = "refine" /\ iteration = 2 /\ exit_reason = "none"
          \/ LoopLeft /\ exit_reason = "gen_failed" /\ Len(repair_calls) = 2

C3_Witness ==
    /\ pc = "done"
    /\ exit_reason = "no_improvement"
    /\ history[1].improvement <= 0
    /\ Len(history) = 2

\* C4: when the first non-decrease of the issue count happens at an iteration
\* i > 1 and leaves issues, the loop is left right after iteration i by
\* stagnation: exactly i iterations, i repair calls, no further call.
C4_StopsAtFirstStall ==
    \A i \in 2..Len(history) :
        ( /\ history[i].errors_after >= history[i].errors_before
          /\ history[i].errors_after > 0
          /\ \A j \in 1..(i - 1) : history[j].errors_after < history[j].errors_before ) =>
            /\ Len(history) = i
            /\ performed = i
            /\ Len(repair_calls) = i
            /\ validate_calls = i
            /\ exit_reason = "no_improvement"
            /\ LoopLeft

C4_Witness ==
    /\ pc = "done"
    /\ Len(history) = 3
    /\ history[1].errors_after < history[1].errors_before
    /\ history[2].errors_after < history[2].errors_before
    /\ history[3].errors_after = history[3].errors_before
    /\ exit_reason = "no_improvement"

\* C5: the loop is left at the first iteration whose issue count is 0, as
\* converged, with iterations_performed that iteration's index and no repair or
\* validation call after it.
C5_StopsAtFirstZero ==
    \A i \in 1..Len(history) :
        history[i].errors_after = 0 =>
            /\ Len(history) = i
            /\ performed = i
            /\ Len(repair_calls) = i
            /\ validate_calls = i
            /\ exit_reason = "converged"
            /\ refinement_metadata.refinement_successful
            /\ LoopLeft

C5_Witness ==
    /\ pc = "done"
    /\ Len(history) = 2
    /\ history[1].errors_after = 2
    /\ history[2].errors_after = 0

\* C6: when the repair call of iteration 1 returns nothing, the loop is left at
\* once without improvement: no validation, empty history, iterations_performed
\* 0, and the text returned is the prior text.
C6_FirstRepairFails ==
    (Len(repair_calls) >= 1 /\ repair_calls[1].answer = NoText) =>
        /\ Len(repair_calls) = 1
        /\ validate_calls = 0
        /\ history = <<>>
        /\ performed = 0
        /\ exit_reason = "gen_failed"
        /\ LoopLeft
        /\ ~refinement_metadata.refinement_successful
        /\ refinement_metadata.final_errors = refinement_metadata.initial_errors
        /\ current_response = OriginalText
        /\ pc = "done" => (http = [status |-> 200, body |-> OriginalText]
                            /\ best.response = OriginalText)

C6_Witness ==
    /\ pc = "done"
    /\ Len(repair_calls) = 1
    /\ repair_calls[1].answer = NoText
    /\ refinement_metadata.initial_errors = 2

\* C7: after a session with at least one completed iteration the text sent is
\* the cleaned artifact of the last completed iteration; it has replaced the
\* candidate's text and the history is attached to the candidate.
C7_LastIterationReturned ==
    (pc = "done" /\ Len(history) >= 1) =>
        /\ http = [status |-> 200, body |-> IterationText(Len(history))]
        /\ best.response = IterationText(Len(history))
        /\ best.response # OriginalText
        /\ best.refined
        /\ best.refinement_metadata = refinement_metadata
        /\ best.refinement_metadata.iteration_details = history

C7_Witness ==
    /\ pc = "done"
    /\ Len(history) = 2
    /\ ~refinement_metadata.refinement_successful
    /\ exit_reason = "gen_failed"

\* C8: the text finally sent never has more issues than the selected candidate
\* had, nor more than the artifact of any earlier iteration; stated for the
\* sessions whose candidate had at least one counted issue.  (Fails: the last
\* iteration's text is sent even when it is worse.)
C8_FinalIsBest ==
    (pc = "done" /\ best.refined /\ refinement_metadata.initial_errors >= 1) =>
        /\ refinement_metadata.final_errors <= refinement_metadata.initial_errors
        /\ \A i \in 1..Len(history) :
              refinement_metadata.final_errors <= history[i].errors_after

\* C9: every repair call goes to the configuration that produced the selected
\* candidate.  (Fails: the configuration is looked up by name, and names need
\* not be unique.)
C9_SameBackend ==
    \A i \in 1..Len(repair_calls) :
        model_configs[repair_calls[i].key] = model_configs[best.key]

\* C10: query_all_models returns exactly one result per configured backend,
\* whatever subset of workers failed, and no failure ends the request: with an
\* index and at least one backend /query answers 200.
C10_OneResultPerBackend ==
    /\ pc = "collect" => \A i \in 1..Len(results) : results[i].key = i
    /\ pc = "select" =>
          /\ Len(results) = N
          /\ \A k \in Keys : Cardinality({ i \in 1..Len(results) : results[i].key = k }) = 1
    /\ (pc = "done" /\ index_built /\ N >= 1) => http.status = 200

C10_Witness ==
    /\ pc = "select"
    /\ N >= 2
    /\ \E i, j \in 1..Len(results) : results[i].error /\ ~results[j].error

\* C11: every candidate handed to the ranking carries a validation report, and
\* a candidate of a failed worker is a diagnostic placeholder whose report has
\* has_errors set.  (Fails: the fallback tuple's metadata holds only 'error';
\* the ranking reads an empty dictionary in place of the report.)
C11_FailedWorkerHasReport ==
    pc = "select" =>
        \A i \in 1..Len(results) :
            /\ results[i].static_validation.present
            /\ results[i].error =>
                  /\ results[i].response = Unescape(ErrorText(results[i].key))
                  /\ results[i].static_validation.has_errors

\* ------------------------------------------------- functions taken alone
\* The request is parked while a single function is exercised on inputs drawn
\* from a bounded set.
request_vars == << config_vars, refine_vars, pc, task, future, results, best, http >>

Parked ==
    /\ index_built = FALSE
    /\ model_configs = <<>>
    /\ budget_arg = Unset
    /\ budget_env = Unset
    /\ max_refinement_iterations = DefaultBudget
    /\ pc = "idle"
    /\ task = <<>>
    /\ future = <<>>
    /\ results = <<>>
    /\ best = NoResult
    /\ model_key = 0
    /\ iteration = 0
    /\ current_response = NoText
    /\ current_validation = EmptyDict
    /\ refinement_metadata = NoRefinement
    /\ exit_reason = "none"
    /\ repair_calls = <<>>
    /\ validate_calls = 0
    /\ http = NoResponse

\* ------------------------------------------------------------ the ranking
\* Durations and lengths around the ceilings of get_combined_score, and
\* reports from full marks down to the clamp of the quality score.
RankMetrics == { [duration |-> d, len |-> l] : d \in {0, 15, 45}, l \in {0, 600, 3000, 4500} }

RankValidations ==
    { Outcome("auto", FALSE, "other", "clean", 0), Outcome("auto", FALSE, "go", "clean", 0) }
    \cup { Outcome("auto", FALSE, "go", "issues", k) : k \in {12, 13} }

\* A text that auto detection takes for Go is not empty
RankOutcomes ==
    { [fault |-> TRUE, m |-> m, v |-> Outcome("auto", FALSE, "other", "clean", 0)] :
        m \in FaultMetrics }
    \cup { o \in [fault : {FALSE}, m : RankMetrics, v : RankValidations] :
             o.m.len = 0 => o.v.lang = "other" }

RankConfig == [name |-> "a", type |-> "openai_compatible", deployment |-> "d1"]

\* The lists query_all_models has built when it calls results.sort: one
\* dictionary per backend, in submission order
RECURSIVE RankInputs(_)
RankInputs(n) ==
    IF n = 0 THEN { <<>> }
    ELSE LET shorter == RankInputs(n - 1)
         IN  shorter \cup
             { Append(s, ResultDict(query_single_model(n, RankConfig, o))) :
                 s \in { t \in shorter : Len(t) = n - 1 }, o \in RankOutcomes }

InitRank ==
    /\ Parked
    /\ unit_pc = "ready"
    /\ unit_in \in RankInputs(MaxBackends)
    /\ unit_out = <<>>

\* results.sort(key=get_combined_score, reverse=True)
Rank ==
    /\ unit_pc = "ready"
    /\ unit_out' = SortDesc(unit_in)
    /\ unit_pc' = "done"
    /\ UNCHANGED << request_vars, unit_in >>

NextRank == Rank

SpecRank == InitRank /\ [][NextRank]_vars

\* C12: when one backend raised and every other candidate has a nonzero quality
\* score, the failed backend's candidate is the last element of the ranked
\* list, whatever the durations and lengths.  (Fails: the placeholder scores on
\* speed and length and overtakes a slow, short candidate of low quality.)
C12_FailedRanksLast ==
    LET failed == { i \in 1..Len(unit_in) : unit_in[i].error }
    IN  ( /\ unit_pc = "done"
          /\ Len(unit_in) >= 2
          /\ Cardinality(failed) = 1
          /\ \A i \in 1..Len(unit_in) :
                i \notin failed => unit_in[i].static_validation.quality_score > 0 )
        => unit_out[Len(unit_out)].error

\* C13: with an index but no backend configured, and when every configured
\* backend failed, /query ends with a failure status; a placeholder text is
\* never returned with status 200.  (Fails: the placeholders of failed workers
\* make the result list non-empty, and the first one is returned with 200.)
C13_AllFailedIsFailure ==
    [][ /\ (pc = "idle" /\ index_built /\ N = 0) => http'.status = 500
        /\ (pc = "select" /\ \A i \in 1..Len(results) : results[i].error)
              => http'.status # 200
        /\ (pc' = "done" /\ http'.status = 200) => http'.body.iter # -1 ]_vars

\* The results of a ranked list put back in submission order (one per key)
BySubmission(rs) ==
    [k \in 1..Len(rs) |-> rs[CHOOSE i \in 1..Len(rs) : rs[i].key = k]]

\* C14: the ranked list is a function of the per-backend results alone: it is
\* the stable descending sort of the results in submission order, in whatever
\* order the workers completed, and ranking it again leaves it as it is.
C14_RankingDeterministic ==
    pc = "select" =>
        /\ results = SortDesc(BySubmission(results))
        /\ SortDesc(results) = results

C14_Witness ==
    /\ pc = "select"
    /\ N >= 2
    /\ \E i, j \in 1..Len(results) :
          /\ i # j
          /\ get_combined_score(results[i]) = get_combined_score(results[j])
          /\ ~results[i].error

\* C15: the ranked list holds the candidates of the input in non-increasing
\* order of combined score, and candidates of equal score keep their
\* submission order.
C15_SortedStable ==
    unit_pc = "done" =>
        /\ Len(unit_out) = Len(unit_in)
        /\ \A k \in 1..Len(unit_in) : \E i \in 1..Len(unit_out) : unit_out[i] = unit_in[k]
        /\ \A i, j \in 1..Len(unit_out) :
              i < j =>
                 /\ get_combined_score(unit_out[i]) >= get_combined_score(unit_out[j])
                 /\ get_combined_score(unit_out[i]) = get_combined_score(unit_out[j])
                       => unit_out[i].key < unit_out[j].key

C15_Witness ==
    /\ unit_pc = "done"
    /\ Len(unit_out) >= 2
    /\ get_combined_score(unit_out[1]) = get_combined_score(unit_out[2])
    /\ unit_out[1].response_length # unit_out[2].response_length

\* The score 1.0 on the model's scale: 0.70 + 0.10 + 0.20
FullScore == QualityWeight * 100 + TimeWeight * TimeCeiling + LengthCeiling

\* C16: for every duration >= 0, response length >= 0 and issue count >= 0 the
\* combined score of a candidate lies in [0.0, 1.0].
C16_ScoreInUnitInterval ==
    \A i \in 1..Len(unit_out) :
        ( /\ unit_out[i].duration >= 0
          /\ unit_out[i].response_length >= 0
          /\ unit_out[i].static_validation.total_errors >= 0 )
        => /\ get_combined_score(unit_out[i]) >= 0
           /\ get_combined_score(unit_out[i]) <= FullScore

C16_Witness ==
    /\ unit_pc = "done"
    /\ \E i \in 1..Len(unit_out) :
          /\ get_combined_score(unit_out[i]) = FullScore
          /\ unit_out[i].response_length > LengthCeiling
    /\ \E i \in 1..Len(unit_out) :
          /\ unit_out[i].duration > TimeCeiling
          /\ unit_out[i].static_validation.total_errors >= 13
          /\ get_combined_score(unit_out[i]) = unit_out[i].response_length

\* ----------------------------------------------------------- the validator
MaxCount == 14   \* largest issue count of one validator run

\* Every way of calling validate_code: the language argument, the kind of text
\* (an empty text is never taken for Go) and what the tool does
ValidateInputs ==
    { Outcome(language, text[1], text[2], tool[1], tool[2]) :
        language \in {"auto", "go", "python"},
        text \in { << TRUE, "other" >>, << FALSE, "go" >>, << FALSE, "other" >> },
        tool \in { << t, 0 >> : t \in {"no_tmpdir", "raise", "clean", "garbage"} }
                 \cup { << "fail", 1 >> }
                 \cup { << "issues", k >> : k \in 1..MaxCount } }

InitValidate ==
    /\ Parked
    /\ unit_pc = "ready"
    /\ unit_in \in ValidateInputs
    /\ unit_out = EmptyDict

\* StaticCodeValidator.validate_code(code, language, model_name)
Validate ==
    /\ unit_pc = "ready"
    /\ unit_out' = validate_code(unit_in)
    /\ unit_pc' = "done"
    /\ UNCHANGED << request_vars, unit_in >>

NextValidate == Validate

SpecValidate == InitValidate /\ [][NextValidate]_vars

\* The call took the Go path and reached the external tool
ToolRan ==
    /\ unit_in.language = "go" \/ (unit_in.language = "auto" /\ unit_in.lang = "go")
    /\ ~unit_in.empty

\* The call reached the scoring step (lines 479-488)
Scored == ToolRan /\ unit_in.tool \in {"fail", "clean", "garbage", "issues"}

\* C17: the quality score of a scored report with n counted issues is
\* max(0.0, 1.0 - 0.08 n): it does not increase with n and is 0.0 from n = 13 on.
C17_QualityScoreFormula ==
    (unit_pc = "done" /\ Scored) =>
        LET n == unit_out.total_errors
        IN  /\ n = unit_in.n
            /\ unit_out.quality_score = (IF 100 - 8 * n >= 0 THEN 100 - 8 * n ELSE 0)
            /\ \A m \in 0..n : QualityScore(m) >= unit_out.quality_score
            /\ n >= 13 => unit_out.quality_score = 0
            /\ n < 13 => unit_out.quality_score > 0

C17_Witness ==
    /\ unit_pc = "done"
    /\ Scored
    /\ unit_out.total_errors >= 13
    /\ unit_out.quality_score = 0

\* C18: in every report validation_passed holds exactly when the quality score
\* is at least 0.5, which is exactly when the issue count is at most 6.
\* (Fails: the early-return and exception reports count 0 issues and do not
\* pass.)
C18_PassedIffAtMostSix ==
    (unit_pc = "done" /\ ~unit_out.raised) =>
        /\ unit_out.validation_passed <=> unit_out.quality_score >= 50
        /\ unit_out.quality_score >= 50 <=> unit_out.total_errors <= 6

\* C19: in every report validate_code returns, an issue count of zero implies
\* a quality score of exactly 1.0.  (Fails: 0.5 for an unsupported language,
\* 0.0 for the empty text and for a tool exception.)
C19_ZeroIssuesFullScore ==
    (unit_pc = "done" /\ ~unit_out.raised /\ unit_out.total_errors = 0) =>
        unit_out.quality_score = 100

\* C20: validate_code never raises, and whenever the external validator fails
\* (crash, timeout, nonzero exit without output, unparsable output) the report
\* has has_errors set and lists exactly one synthetic issue.  (Fails:
\* unparsable output is scored as a clean run.)
C20_ToolFailureReported ==
    unit_pc = "done" =>
        /\ ~unit_out.raised
        /\ (ToolRan /\ unit_in.tool \in {"raise", "fail", "garbage"}) =>
              /\ unit_out.has_errors
              /\ unit_out.errors = 1

\* The report of a run in which the tool worked and found nothing
CleanReport == validate_code(Outcome("auto", FALSE, "go", "clean", 0))

\* C21: a report made when the tool was unusable (it raised or timed out, left
\* with a nonzero exit code and no output, or printed unparsable output) never
\* has both the quality score and the has_errors flag of a report made when the
\* tool ran and found zero issues.  (Fails: unparsable output is scored as a
\* clean run.)
C21_UnusableDistinguishable ==
    (unit_pc = "done" /\ ToolRan /\ unit_in.tool \in {"raise", "fail", "garbage"}) =>
        ~ ( /\ unit_out.quality_score = CleanReport.quality_score
            /\ unit_out.has_errors = CleanReport.has_errors )

\* ------------------------------------------------------ counting the issues
MaxTextLines == 2   \* sub-lines in the Text of one issue object
MaxObjects   == 2   \* issue objects in the tool's Issues list

\* A sub-line of an issue's Text, after strip():
\*   "comment"   - starts with '#' (skipped, like a blank line)
\*   "countable" - holds '.go:', 'undefined', 'not used' or 'error'
\*   "plain"     - any other text
\* The Text is the sequence of its sub-lines; <<>> is the empty string (also
\* what issue.get('Text', '') yields for an issue without Text).
LineKinds == {"comment", "countable", "plain"}

CountKind(issue_text, kinds) ==
    Cardinality({ i \in 1..Len(issue_text) : issue_text[i] \in kinds })

\* count_error_lines(issue_text)
count_error_lines(issue_text) ==
    IF issue_text = <<>> THEN 0
    ELSE Max(CountKind(issue_text, {"countable"}), 1)

\* golangci_lint_errors += count_error_lines(issue.get('Text', '')), per issue
RECURSIVE SumErrorLines(_)
SumErrorLines(lint_issues) ==
    IF lint_issues = <<>> THEN 0
    ELSE count_error_lines(Head(lint_issues)) + SumErrorLines(Tail(lint_issues))

\* validation_result['errors'].append(...): one entry per sub-line that is
\* neither blank nor a comment
RECURSIVE SumReportedLines(_)
SumReportedLines(lint_issues) ==
    IF lint_issues = <<>> THEN 0
    ELSE CountKind(Head(lint_issues), {"countable", "plain"})
         + SumReportedLines(Tail(lint_issues))

\* What validate_code meets when the tool prints a non-empty Issues list
IssueOutcome(lint_issues) ==
    [Outcome("auto", FALSE, "go", "issues", SumErrorLines(lint_issues))
        EXCEPT !.lines = SumReportedLines(lint_issues)]

IssueTexts == SeqsUpTo(LineKinds, MaxTextLines)

InitCount ==
    /\ Parked
    /\ unit_pc = "ready"
    /\ unit_in \in SeqsUpTo(IssueTexts, MaxObjects) \ { <<>> }
    /\ unit_out = EmptyDict

\* validate_code on a Go text for which the tool prints the Issues list unit_in
CountIssues ==
    /\ unit_pc = "ready"
    /\ unit_out' = validate_code(IssueOutcome(unit_in))
    /\ unit_pc' = "done"
    /\ UNCHANGED << request_vars, unit_in >>

NextCount == CountIssues

SpecCount == InitCount /\ [][NextCount]_vars

\* What the issue list should count to: k for an issue with k >= 1 countable
\* sub-lines, 1 for any other issue
RECURSIVE ExpectedCount(_)
ExpectedCount(lint_issues) ==
    IF lint_issues = <<>> THEN 0
    ELSE LET k == CountKind(Head(lint_issues), {"countable"})
         IN  (IF k >= 1 THEN k ELSE 1) + ExpectedCount(Tail(lint_issues))

\* C22: every issue object of the tool adds at least 1 to total_errors, an
\* issue with empty Text or without countable sub-line included, and an issue
\* with k >= 1 countable sub-lines adds exactly k.  (Fails: an issue whose
\* Text is empty adds 0.)
C22_EveryIssueCounts ==
    unit_pc = "done" =>
        /\ unit_out.total_errors = ExpectedCount(unit_in)
        /\ unit_out.total_errors >= Len(unit_in)

\* ------------------------------------------------ generate_with_continuation
MaxGenBudget == 3   \* largest max_iterations of an IterativeGenerator

\* What one chat.completions.create call does: it raises, or it returns a
\* completion with a content (a text, or None), a finish_reason and a usage
\* record (present or None)
Completions ==
    { [raise |-> TRUE, content |-> "none", finish_reason |-> "none", usage |-> FALSE] }
    \cup [raise : {FALSE}, content : {"text", "none"},
          finish_reason : {"stop", "length", "content_filter"}, usage : BOOLEAN]

\* Variant: the loop runs one pass more than the budget
WithinBudget_OneMore(iteration_, max_iterations_) == iteration_ <= max_iterations_

\* while iteration < self.max_iterations
WithinBudget(iteration_, max_iterations_) == iteration_ < max_iterations_

\* Variant: every finish reason asks for a continuation
Continues_Always(finish_reason) == TRUE

\* elif finish_reason == 'length': the loop goes on; 'stop' and anything else break
Continues(finish_reason) == finish_reason = "length"

\* Variant: the truncation is never recorded
Truncated_Never(was_truncated, finish_reason) == was_truncated

\* metadata['was_truncated'] = True in the 'length' branch
Truncated(was_truncated, finish_reason) == was_truncated \/ finish_reason = "length"

\* Variant: the continuation request carries only the chunk that was cut off
current_user_LastChunk(continuing, full_response) ==
    IF continuing THEN << full_response[Len(full_response)] >> ELSE <<>>

\* lines 943-947: the user message of the next call; the first call has the
\* caller's prompt (no generated text), a continuation has f"...{full_response}..."
current_user(continuing, full_response) ==
    IF continuing THEN full_response ELSE <<>>

\* The locals of generate_with_continuation before the loop.  A chunk is named
\* by the number of the call that returned it; calls logs every backend call
\* with the accumulated text its user message carried.
GenStart ==
    [iteration |-> 0, full_response |-> <<>>, iterations |-> 0, finish_reasons |-> <<>>,
     was_truncated |-> FALSE, error |-> FALSE, left |-> FALSE, continuing |-> FALSE,
     calls |-> <<>>, returned |-> [chunks |-> <<>>, cleaned |-> FALSE]]

InitGen ==
    /\ Parked
    /\ unit_pc = "loop"
    /\ unit_in \in [max_iterations : 0..MaxGenBudget]
    /\ unit_out = GenStart

\* One pass of the while loop (lines 901-958)
GenCall ==
    /\ unit_pc = "loop"
    /\ ~unit_out.left
    /\ WithinBudget(unit_out.iteration, unit_in.max_iterations)
    /\ \E c \in Completions :
          LET g == unit_out
              i == g.iteration + 1
              call == [user |-> current_user(g.continuing, g.full_response),
                       continuation |-> g.continuing, completion |-> c]
              logged == [g EXCEPT !.iteration = i, !.calls = Append(@, call)]
              failed == [logged EXCEPT !.error = TRUE, !.left = TRUE]
              counted == [logged EXCEPT !.full_response = Append(@, i),
                                        !.iterations = i,
                                        !.finish_reasons = Append(@, c.finish_reason)]
          IN  unit_out' =
                 IF c.raise \/ c.content = "none" THEN failed
                 ELSE IF ~c.usage THEN [counted EXCEPT !.error = TRUE, !.left = TRUE]
                 ELSE IF Continues(c.finish_reason)
                      THEN [counted EXCEPT
                              !.was_truncated = Truncated(@, c.finish_reason),
                              !.continuing = TRUE]
                      ELSE [counted EXCEPT !.left = TRUE]
    /\ UNCHANGED << request_vars, unit_pc, unit_in >>

\* After the loop: full_response = clean_code_artifacts(full_response); return
GenReturn ==
    /\ unit_pc = "loop"
    /\ unit_out.left \/ ~WithinBudget(unit_out.iteration, unit_in.max_iterations)
    /\ unit_out' = [unit_out EXCEPT
                      !.returned = [chunks |-> unit_out.full_response, cleaned |-> TRUE]]
    /\ unit_pc' = "done"
    /\ UNCHANGED << request_vars, unit_in >>

NextGen == GenCall \/ GenReturn

SpecGen == InitGen /\ [][NextGen]_vars

\* The backend calls logged so far, and whether call i returned a text chunk
gen_calls == unit_out.calls
Returned(i) == ~gen_calls[i].completion.raise
GaveChunk(i) == Returned(i) /\ gen_calls[i].completion.content = "text"

\* C23: once a backend call has returned 'stop', or any finish reason other
\* than 'length', no further call is made, and the text returned is built from
\* all chunks received, in call order.
C23_StopsAtFirstNonLength ==
    /\ \A i \in 1..Len(gen_calls) :
          (Returned(i) /\ gen_calls[i].completion.finish_reason # "length")
             => i = Len(gen_calls)
    /\ unit_pc = "done" =>
          /\ unit_out.returned.cleaned
          /\ \A i \in 1..Len(gen_calls) :
                GaveChunk(i) <=> \E j \in 1..Len(unit_out.returned.chunks) :
                                    unit_out.returned.chunks[j] = i
          /\ \A j, k \in 1..Len(unit_out.returned.chunks) :
                j < k => unit_out.returned.chunks[j] < unit_out.returned.chunks[k]

C23_Witness ==
    /\ unit_pc = "done"
    /\ unit_in.max_iterations = 3
    /\ unit_out.finish_reasons = << "length", "content_filter" >>
    /\ unit_out.returned.chunks = << 1, 2 >>

\* C24 as stated: for every budget >= 1, 'length' on the calls 1..budget-1 and
\* 'stop' on call number budget give exactly budget calls and was_truncated.
\* (Fails for budget 1: the only call returns 'stop' and nothing was truncated.)
C24_BudgetCallsTruncated ==
    ( /\ unit_pc = "done"
      /\ unit_in.max_iterations >= 1
      /\ Len(unit_out.finish_reasons) = unit_in.max_iterations
      /\ ~unit_out.error
      /\ \A i \in 1..Len(unit_out.finish_reasons) :
            unit_out.finish_reasons[i] =
               (IF i < unit_in.max_iterations THEN "length" ELSE "stop") )
    => /\ Len(gen_calls) = unit_in.max_iterations
       /\ unit_out.was_truncated

\* C24, amended: the same scenario gives exactly budget calls for every budget
\* >= 1, and was_truncated exactly when budget >= 2.
C24_BudgetCallsTruncatedFromTwo ==
    ( /\ unit_pc = "done"
      /\ unit_in.max_iterations >= 1
      /\ Len(unit_out.finish_reasons) = unit_in.max_iterations
      /\ ~unit_out.error
      /\ \A i \in 1..Len(unit_out.finish_reasons) :
            unit_out.finish_reasons[i] =
               (IF i < unit_in.max_iterations THEN "length" ELSE "stop") )
    => /\ Len(gen_calls) = unit_in.max_iterations
       /\ unit_out.was_truncated <=> unit_in.max_iterations >= 2

C24_Witness ==
    /\ unit_pc = "done"
    /\ unit_in.max_iterations = 3
    /\ unit_out.finish_reasons = << "length", "length", "stop" >>
    /\ ~unit_out.error
    /\ Len(gen_calls) = 3

\* C25: when every backend call returns 'length' the run stops after exactly
\* max_iterations calls and returns the accumulated chunks with was_truncated,
\* iterations equal to the budget and no error; no run makes more than
\* max_iterations calls.
C25_ExhaustedWhileTruncated ==
    /\ Len(gen_calls) <= unit_in.max_iterations
    /\ ( /\ unit_pc = "done"
         /\ Len(gen_calls) >= 1
         /\ \A i \in 1..Len(gen_calls) :
               /\ GaveChunk(i)
               /\ gen_calls[i].completion.usage
               /\ gen_calls[i].completion.finish_reason = "length" )
       => /\ Len(gen_calls) = unit_in.max_iterations
          /\ unit_out.was_truncated
          /\ unit_out.iterations = unit_in.max_iterations
          /\ ~unit_out.error
          /\ unit_out.returned.chunks = [i \in 1..unit_in.max_iterations |-> i]

C25_Witness ==
    /\ unit_pc = "done"
    /\ unit_in.max_iterations = 3
    /\ unit_out.finish_reasons = << "length", "length", "length" >>
    /\ ~unit_out.error

\* ------------------------------------------------- clean_code_artifacts
MaxLines == 4   \* lines of a text handed to clean_code_artifacts

\* The function on texts given line by line (the operator clean_code_artifacts
\* above only counts the passes over an abstract text).  A line is known by
\* what line.strip() is:
\*   "blank"    - empty
\*   "fence"    - exactly three backticks
\*   "fence_go" - three backticks and a language tag, as in ```go
\*   "fence6"   - the literal of lines 157 and 174: six backticks and go
\*   "package"  - starts with 'package '
\*   "code"     - anything else
CleanLineKinds == {"blank", "fence", "fence_go", "fence6", "package", "code"}
FenceKinds == {"fence", "fence_go", "fence6"}

AllBlank(lines) == \A i \in 1..Len(lines) : lines[i] = "blank"

\* str.strip() on the joined lines: blank lines at both ends go
Strip(lines) ==
    IF AllBlank(lines) THEN <<>>
    ELSE LET first == CHOOSE i \in 1..Len(lines) :
                         lines[i] # "blank" /\ \A j \in 1..(i - 1) : lines[j] = "blank"
             last  == CHOOSE i \in 1..Len(lines) :
                         lines[i] # "blank" /\ \A j \in (i + 1)..Len(lines) : lines[j] = "blank"
         IN  SubSeq(lines, first, last)

\* Variant: the 'package ' line is skipped like a fence line
StartIndex_AfterMark(lines) ==
    LET marks == { i \in 1..Len(lines) : lines[i] \in {"fence6", "package"} }
    IN  IF marks = {} THEN 1
        ELSE (CHOOSE m \in marks : \A k \in marks : m <= k) + 1

\* The first loop (lines 155-162): the index of the first line kept
StartIndex(lines) ==
    LET marks == { i \in 1..Len(lines) : lines[i] \in {"fence6", "package"} }
    IN  IF marks = {} THEN 1
        ELSE LET i == CHOOSE m \in marks : \A k \in marks : m <= k
             IN  IF lines[i] = "fence6" THEN i + 1 ELSE i

\* The second loop (lines 165-168): the index after the last line kept
EndIndex(lines) ==
    LET closing == { i \in StartIndex(lines)..Len(lines) : lines[i] \in FenceKinds }
    IN  IF closing = {} THEN Len(lines) + 1
        ELSE CHOOSE m \in closing : \A k \in closing : k <= m

\* lines 171-181
CleanCodeArtifacts(lines) ==
    IF AllBlank(lines) THEN lines
    ELSE LET code_lines == SubSeq(lines, StartIndex(lines), EndIndex(lines) - 1)
             keep(line) == line \notin {"fence", "fence6"}
             result == Strip(SelectSeq(code_lines, keep))
         IN  IF result # <<>> THEN result ELSE Strip(lines)

InitClean ==
    /\ Parked
    /\ unit_pc = "ready"
    /\ unit_in \in SeqsUpTo(CleanLineKinds, MaxLines) \ { <<>> }
    /\ unit_out = <<>>

Clean ==
    /\ unit_pc = "ready"
    /\ unit_out' = CleanCodeArtifacts(unit_in)
    /\ unit_pc' = "done"
    /\ UNCHANGED << request_vars, unit_in >>

NextClean == Clean

SpecClean == InitClean /\ [][NextClean]_vars

NoFence(lines) == \A i \in 1..Len(lines) : lines[i] \notin FenceKinds

\* Every line before the first 'package ' line, if there is one, is blank
PackageLeads(lines) ==
    \A i \in 1..Len(lines) :
        lines[i] = "package" => \A j \in 1..(i - 1) : lines[j] \in {"blank", "package"}

\* C26 as stated: a text without a markdown fence line is returned unchanged
\* (here: up to the whitespace around it).  (Fails: the lines before the first
\* 'package ' line are dropped.)
C26_NoFenceUnchanged ==
    (unit_pc = "done" /\ NoFence(unit_in)) => Strip(unit_out) = Strip(unit_in)

\* C26, amended: a text without a fence line whose first 'package ' line, if
\* any, has only blank lines before it is returned with the whitespace around
\* it removed, and unchanged when it is blank altogether.
C26_NoFenceLeadingPackageUnchanged ==
    (unit_pc = "done" /\ NoFence(unit_in) /\ PackageLeads(unit_in)) =>
        unit_out = (IF AllBlank(unit_in) THEN unit_in ELSE Strip(unit_in))

C26_Witness ==
    /\ unit_pc = "done"
    /\ unit_in = << "blank", "package", "code", "blank" >>
    /\ unit_out = << "package", "code" >>

\* A text wrapped in an opening fence (with or without the go tag) and a
\* closing fence, with no fence line in between
Wrapped(lines) ==
    /\ Len(lines) >= 2
    /\ lines[1] \in {"fence", "fence_go"}
    /\ lines[Len(lines)] = "fence"
    /\ NoFence(SubSeq(lines, 2, Len(lines) - 1))

\* C27: for a text wrapped in an opening fence and a closing fence the result
\* holds neither fence line, only the lines between them; when those are all
\* blank the result is the trimmed input.  (Fails: an opening ```go line is
\* neither taken as the start nor removed.)
C27_FencesRemoved ==
    (unit_pc = "done" /\ Wrapped(unit_in)) =>
        LET body == SubSeq(unit_in, 2, Len(unit_in) - 1)
        IN  IF AllBlank(body) THEN unit_out = Strip(unit_in)
            ELSE /\ NoFence(unit_out)
                 /\ unit_out = Strip(body)

\* --------------------------------------------- validations side by side
MaxValidators == 3   \* validate_and_fix_go_code calls in progress at once

\* Each call of validate_and_fix_go_code on a Go text goes through
\*   "start" -> "workspace" (mkdtemp) -> "code_written" -> "script_open"
\*   (write_text has opened /tmp/validate_go_code.sh for writing, which
\*   truncates it) -> "script_written" -> "running" (bash reads the script)
\*   -> "done".
\* unit_pc is the position of every call, unit_out the files: the content of
\* the script, the directory each call works in, and the script content each
\* run has read.
Validators == 1..unit_in.validators

InitFiles ==
    /\ Parked
    /\ unit_in \in [validators : 1..MaxValidators]
    /\ unit_pc = [w \in 1..unit_in.validators |-> "start"]
    /\ unit_out = [script |-> "full",
                   temp_dir |-> [w \in 1..unit_in.validators |-> 0],
                   read |-> [w \in 1..unit_in.validators |-> "nothing"]]

\* temp_dir = tempfile.mkdtemp(prefix='code_validation_'): a fresh directory
Mkdtemp(w) ==
    /\ unit_pc[w] = "start"
    /\ unit_pc' = [unit_pc EXCEPT ![w] = "workspace"]
    /\ unit_out' = [unit_out EXCEPT !.temp_dir[w] = w]
    /\ UNCHANGED << request_vars, unit_in >>

\* with open(code_filepath, 'w') ...: f.write(code)
WriteCode(w) ==
    /\ unit_pc[w] = "workspace"
    /\ unit_pc' = [unit_pc EXCEPT ![w] = "code_written"]
    /\ UNCHANGED << request_vars, unit_in, unit_out >>

\* StaticCodeValidator() -> _create_validation_script: script_path.write_text
\* opens the one shared path in mode 'w'
OpenScript(w) ==
    /\ unit_pc[w] = "code_written"
    /\ unit_pc' = [unit_pc EXCEPT ![w] = "script_open"]
    /\ unit_out' = [unit_out EXCEPT !.script = "empty"]
    /\ UNCHANGED << request_vars, unit_in >>

\* ... writes the content and closes the file; chmod
WriteScript(w) ==
    /\ unit_pc[w] = "script_open"
    /\ unit_pc' = [unit_pc EXCEPT ![w] = "script_written"]
    /\ unit_out' = [unit_out EXCEPT !.script = "full"]
    /\ UNCHANGED << request_vars, unit_in >>

\* subprocess.run(['bash', validator.script_path, temp_dir, code_filename])
RunScript(w) ==
    /\ unit_pc[w] = "script_written"
    /\ unit_pc' = [unit_pc EXCEPT ![w] = "running"]
    /\ unit_out' = [unit_out EXCEPT !.read[w] = unit_out.script]
    /\ UNCHANGED << request_vars, unit_in >>

FinishRun(w) ==
    /\ unit_pc[w] = "running"
    /\ unit_pc' = [unit_pc EXCEPT ![w] = "done"]
    /\ UNCHANGED << request_vars, unit_in, unit_out >>

NextFiles ==
    \E w \in Validators :
        \/ Mkdtemp(w)
        \/ WriteCode(w)
        \/ OpenScript(w)
        \/ WriteScript(w)
        \/ RunScript(w)
        \/ FinishRun(w)

SpecFiles == InitFiles /\ [][NextFiles]_vars

\* C28: concurrent validations share no mutable state: the calls work in
\* different directories, no call has a file open for writing that a running
\* validation uses, and every run reads the script as its own call wrote it.
\* (Fails: every call rewrites the one script /tmp/validate_go_code.sh.)
C28_NoSharedFiles ==
    /\ \A v, w \in Validators :
          (v # w /\ unit_out.temp_dir[v] # 0) => unit_out.temp_dir[v] # unit_out.temp_dir[w]
    /\ \A v, w \in Validators :
          (v # w /\ unit_pc[v] = "running") => unit_pc[w] # "script_open"
    /\ \A v \in Validators : unit_out.read[v] \in {"nothing", "full"}

\* ------------------------------------------------------ the worker pool
MaxPool == 5   \* for i in range(1, 6): at most five backends are loaded

\* A deployment with n backends of one kind, the index built, no request yet
InitPool ==
    /\ index_built = TRUE
    /\ \E n \in 1..MaxPool :
          /\ model_configs = [k \in 1..n |-> RankConfig]
          /\ task = [k \in 1..n |-> "idle"]
          /\ future = [k \in 1..n |-> NoFuture]
    /\ budget_arg = Unset
    /\ budget_env = Unset
    /\ max_refinement_iterations = DefaultBudget
    /\ pc = "idle"
    /\ results = <<>>
    /\ best = NoResult
    /\ model_key = 0
    /\ iteration = 0
    /\ current_response = NoText
    /\ current_validation = EmptyDict
    /\ refinement_metadata = NoRefinement
    /\ exit_reason = "none"
    /\ repair_calls = <<>>
    /\ validate_calls = 0
    /\ http = NoResponse
    /\ unit_pc = "off"
    /\ unit_in = <<>>
    /\ unit_out = <<>>

\* query_single_model returns in its pool thread; what it returns is left out
WorkerReturns(k) ==
    /\ task[k] = "running"
    /\ task' = [task EXCEPT ![k] = "done"]
    /\ UNCHANGED << unit_vars, config_vars, refine_vars, pc, future, results, best, http >>

NextPool ==
    \/ QueryStart
    \/ \E k \in Keys : WorkerStart(k)
    \/ \E k \in Keys : WorkerReturns(k)

SpecPool ==
    /\ InitPool
    /\ [][NextPool]_vars
    /\ WF_vars(QueryStart)
    /\ \A k \in 1..MaxPool :
          /\ WF_vars(k \in Keys /\ WorkerStart(k))
          /\ WF_vars(k \in Keys /\ WorkerReturns(k))

\* C29: at every moment of query_all_models at most min(N, 3) workers are
\* executing, and every backend's worker is eventually run.
C29_PoolBounded ==
    /\ [](Cardinality({ k \in Keys : task[k] = "running" }) <= Min(N, PoolSize))
    /\ <>(\A k \in Keys : task[k] = "done")

C29_Witness ==
    /\ N > PoolSize
    /\ Cardinality({ k \in Keys : task[k] = "running" }) = PoolSize
    /\ \E k \in Keys : task[k] = "queued"

\* -------------------------------------------- when the refinement is started
\* The top-ranked candidate's report asks for a repair
TopHasIssues == best.static_validation.present /\ best.static_validation.has_errors

\* The text the top-ranked candidate had in the ranked list: the diagnostic
\* text of a failed worker, the cleaned text of the backend otherwise
RankedText == IF best.error THEN Unescape(ErrorText(best.key)) ELSE OriginalText

\* The refinement has been entered or has left a trace
SessionStarted ==
    \/ pc \in {"refine", "summary"}
    \/ refinement_metadata.refinement_needed
    \/ repair_calls # <<>>
    \/ validate_calls > 0
    \/ best.refined

\* C30: the refinement is started only if the report of the top-ranked
\* candidate has has_errors set; otherwise no repair call and no validation
\* call is made, the answer is the candidate's text as it was ranked, and no
\* refinement metadata is attached to the candidate.
C30_RefinedOnlyOnIssues ==
    /\ SessionStarted => TopHasIssues
    /\ (pc = "done" /\ http.status = 200 /\ ~TopHasIssues) =>
          /\ repair_calls = <<>>
          /\ validate_calls = 0
          /\ http.body = RankedText
          /\ best.response = RankedText
          /\ ~best.refined
          /\ best.refinement_metadata = NoRefinement

C30_Witness ==
    /\ pc = "done"
    /\ http.status = 200
    /\ best.static_validation.present
    /\ ~best.static_validation.has_errors
    /\ http.body = RankedText
    /\ repair_calls = <<>>

\* ------------------------------------------------ the repair requests alone
MaxReported == 12   \* longest 'errors' list of the selected candidate's report

\* The report of a candidate whose lint run found n issues and listed e lines
ListedReport(n, e) ==
    validate_code([Outcome("auto", FALSE, "go", "issues", n) EXCEPT !.lines = e])

\* The state in which query has the ranked list of one backend whose text has
\* lint issues: the refinement is about to be decided (line 1731).  The
\* candidate has up to one issue more than a refined text, so that a session
\* can lower the count in every iteration of the default budget.
InitRepair ==
    /\ index_built = TRUE
    /\ model_configs = << RankConfig >>
    /\ \E c \in BudgetChoices :
          /\ budget_arg = c[1]
          /\ budget_env = c[2]
          /\ max_refinement_iterations = InitBudget(c[1], c[2])
    /\ pc = "select"
    /\ task = << "done" >>
    /\ future = << NoFuture >>
    /\ \E n \in 1..(MaxIssues + 1), e \in 0..MaxReported :
          results = << ResultDict([raised |-> FALSE, key |-> 1, model |-> RankConfig.name,
                                   response |-> clean_code_artifacts(Text(1, 0, 0)),
                                   len |-> 3000, duration |-> 3,
                                   static_validation |-> ListedReport(n, e),
                                   error |-> FALSE]) >>
    /\ best = NoResult
    /\ model_key = 0
    /\ iteration = 0
    /\ current_response = NoText
    /\ current_validation = EmptyDict
    /\ refinement_metadata = NoRefinement
    /\ exit_reason = "none"
    /\ repair_calls = <<>>
    /\ validate_calls = 0
    /\ http = NoResponse
    /\ unit_pc = "off"
    /\ unit_in = <<>>
    /\ unit_out = <<>>

NextRepair ==
    \/ SelectBest
    \/ RefineIteration
    \/ RefineReturn

SpecRepair == InitRepair /\ [][NextRepair]_vars

\* The report that is the baseline of iteration i: the selected candidate's
\* for the first iteration, the one iteration i - 1 recorded otherwise
BaselineReport(i) ==
    IF i = 1 THEN best.static_validation ELSE history[i - 1].validation_result

C32_HistoryChained ==
    /\ Len(history) = performed
    /\ \A k \in 1..Len(history) :
          /\ history[k].iteration = k
          /\ history[k].improvement = history[k].errors_before - history[k].errors_after
          /\ history[k].errors_before =
                IF k = 1 THEN refinement_metadata.initial_errors
                ELSE history[k - 1].errors_after
    /\ Len(history) >= 1 =>
          refinement_metadata.initial_errors = best.static_validation.total_errors

C32_Witness ==
    /\ Len(history) = 3
    /\ history[1].errors_after # refinement_metadata.initial_errors
    /\ history[2].errors_after # history[1].errors_after
    /\ history[3].improvement < 0

\* --------------------------------------------------- continuation requests
\* Call i returned a completion the loop body processed to its end, with
\* finish reason 'length'
CutOff(i) ==
    /\ GaveChunk(i)
    /\ gen_calls[i].completion.usage
    /\ gen_calls[i].completion.finish_reason = "length"

\* C33: a call that returned 'length' while budget remains is followed by one
\* further call, a continuation whose user message holds all chunks received
\* so far in call order; a call is a continuation only in that case; and the
\* text handed to the final cleaning is all chunks in call order.
C33_ContinuationCarriesAll ==
    /\ \A i \in 1..Len(gen_calls) :
          /\ (CutOff(i) /\ i < unit_in.max_iterations /\ unit_pc = "done")
                => Len(gen_calls) >= i + 1
          /\ gen_calls[i].continuation <=> (i > 1 /\ CutOff(i - 1))
          /\ gen_calls[i].user = IF i > 1 THEN [j \in 1..(i - 1) |-> j] ELSE <<>>
    /\ unit_pc = "done" =>
          /\ unit_out.returned.chunks = unit_out.full_response
          /\ Len(unit_out.full_response) = Cardinality({ i \in 1..Len(gen_calls) : GaveChunk(i) })
          /\ \A j \in 1..Len(unit_out.full_response) :
                /\ GaveChunk(unit_out.full_response[j])
                /\ unit_out.full_response[j] = j

C33_Witness ==
    /\ unit_pc = "done"
    /\ Len(gen_calls) = 3
    /\ CutOff(1)
    /\ CutOff(2)
    /\ gen_calls[3].user = << 1, 2 >>
    /\ gen_calls[3].completion.finish_reason = "stop"
    /\ unit_out.returned.chunks = << 1, 2, 3 >>

\* -------------------------------------------------------------- termination
\* One run of either loop: a refinement session about to be decided, or a
\* generate_with_continuation run about to start
InitTerm == InitRepair \/ InitGen

NextTerm ==
    \/ SelectBest
    \/ RefineIteration
    \/ RefineReturn
    \/ GenCall
    \/ GenReturn

\* Every backend call and every validator call returns: the step that waits
\* for it is eventually taken
SpecTerm == InitTerm /\ [][NextTerm]_vars /\ WF_vars(NextTerm)

\* Every iteration of the session was completed and lowered the issue count
\* without reaching zero
AlwaysLowered ==
    /\ Len(history) = Len(repair_calls)
    /\ \A k \in 1..Len(history) :
          /\ history[k].errors_after < history[k].errors_before
          /\ history[k].errors_after > 0

\* C34: every refinement session and every generate_with_continuation run
\* comes to its end, and a session that has left the loop after lowering a
\* nonzero issue count in every iteration has performed exactly
\* max_refinement_iterations iterations and left by exhausting the budget.
C34_Terminates ==
    /\ <>(pc = "done" \/ unit_pc = "done")
    /\ []( (pc \in {"summary", "done"} /\ AlwaysLowered) =>
              /\ performed = max_refinement_iterations
              /\ exit_reason = "exhausted" )

C34_Witness ==
    /\ pc = "done"
    /\ AlwaysLowered
    /\ performed = DefaultBudget
    /\ exit_reason = "exhausted"
    /\ refinement_metadata.final_errors > 0

\* ------------------------------------------------ the flags of a report
\* C35: in every report validate_code returns, has_errors is set exactly when
\* total_errors is greater than 0.  (Fails: the report of a tool exception and
\* the report of an empty text set has_errors and count 0 issues.)
C35_FlagAgreesWithCount ==
    (unit_pc = "done" /\ ~unit_out.raised) =>
        (unit_out.has_errors <=> unit_out.total_errors > 0)

\* ------------------------------------------------- what convergence rests on
\* C36: refinement_successful is set only when the tool analysed the refined
\* text and found nothing, that is when the last iteration's report is the
\* report of a clean lint run: not the report of a failed revalidation and not
\* the neutral report of a text that was not taken for Go.  (Fails: both of
\* these reports count 0 issues, and the count is all the loop looks at.)
C36_ConvergedOnlyIfAnalysed ==
    refinement_metadata.refinement_successful =>
        /\ Len(history) >= 1
        /\ history[Len(history)].validation_result = CleanReport

\* ---------------------------------------------------------- the empty text
\* C37: validate_code with automatic language detection on an empty or
\* whitespace-only text returns a report with has_errors set and
\* validation_passed not set.  (Fails: the empty text is not taken for Go and
\* gets the neutral report, which passes.)
C37_EmptyTextFails ==
    (unit_pc = "done" /\ unit_in.language = "auto" /\ unit_in.empty) =>
        /\ ~unit_out.raised
        /\ unit_out.has_errors
        /\ ~unit_out.validation_passed

\* ------------------------------------------- a candidate's fields and its text
\* C38: the fields of the selected candidate describe the text it holds: the
\* text is the one response_length was taken from and the report was made for
\* (the text it was ranked with), or, once the refinement has replaced the
\* text, the report attached is the report of the replacing text.  The length
\* of a refined text has no counterpart in the model; response_length is only
\* known to describe the ranked text.  (Fails: the refinement replaces the
\* text and leaves response_length and the report as they were.)
C38_FieldsDescribeText ==
    best.key # 0 =>
        \/ best.response = RankedText
        \/ /\ best.refined
           /\ Len(history) >= 1
           /\ best.response = IterationText(Len(history))
           /\ best.static_validation = history[Len(history)].validation_result

\* ------------------------------------------- the metadata of a generator run
\* C39: in every state of a generate_with_continuation run, iterations equals
\* the number of recorded finish reasons and the number of backend calls that
\* returned, it does not exceed max_iterations, and was_truncated is set
\* exactly when a recorded finish reason is 'length'.  (Fails: a completion
\* without content is not counted, and a completion without usage record is
\* counted with its finish reason before the pass raises, so a recorded
\* 'length' leaves was_truncated unset.)
C39_MetadataConsistent ==
    /\ unit_out.iterations = Len(unit_out.finish_reasons)
    /\ unit_out.iterations = Cardinality({ i \in 1..Len(gen_calls) : Returned(i) })
    /\ unit_out.iterations <= unit_in.max_iterations
    /\ unit_out.was_truncated <=>
          \E i \in 1..Len(unit_out.finish_reasons) : unit_out.finish_reasons[i] = "length"

\* ------------------------------------------------------ cleaning twice
\* C40: clean_code_artifacts is idempotent: cleaning its own result returns
\* that result.  (Fails: a fence line with a language tag that the first pass
\* kept is taken for the closing fence by the second pass, which drops that
\* line and everything after it.)
C40_CleanIdempotent ==
    unit_pc = "done" => CleanCodeArtifacts(unit_out) = unit_out

====
